---- MODULE Spec2Model ----
(***************************************************************************)
(* Model of the wimlib-imagex command adapter (src/lib/index.js, class     *)
(* Wim).  Every public operation builds an argument vector, hands it to    *)
(* the process collaborator (xcraft-core-process) through _spawn, and       *)
(* post-processes the captured standard output.                            *)
(*                                                                         *)
(* Text is a sequence of one-character strings.  JavaScript values that    *)
(* travel between _spawn and the operations are records                    *)
(*   [t, text, code, msg]                                                  *)
(* with t in {"undefined", "text", "number", "error"}.  A missing property *)
(* reads as the empty string (falsy), a missing option as "" / FALSE / 0.  *)
(*                                                                         *)
(* The process collaborator is outside the repository.  It is modelled by  *)
(* the two things the code can observe of it: the stdout callback, called  *)
(* once per chunk, and the completion callback `next`.  How it calls       *)
(* `next` is its own choice: next(null, status) lets the `yield` return,   *)
(* and the code drops the status; next(v) with a truthy v makes the yield  *)
(* throw v, where v may be an Error carrying a `code`, a bare number or a  *)
(* string.                                                                 *)
(*                                                                         *)
(* The adapter does not serialise calls: a call is accepted while another  *)
(* awaits its subprocess, and a call runs in separate steps: up to its     *)
(* `await this._spawn(...)`, the return of _spawn when the subprocess      *)
(* ends, the rest of the operation, and for info the end of the parse.     *)
(***************************************************************************)
EXTENDS Integers, Sequences, FiniteSets, TLC

VARIABLES
    platform,    \* process.platform
    options,     \* the options record the caller owns and passes to calls
    original,    \* history: that record as the caller wrote it
    calls,       \* the calls of the caller, by order of issue
    setOrder,    \* SpecArgs: option names in the order the caller set them
    flags,       \* SpecArgs: the list _argsOptionsBuilder returned
    built        \* SpecArgs: flags was built from the current options

vars == <<platform, options, original, calls, setOrder, flags, built>>

----------------------------------------------------------------------------
(* Bounds *)

MaxLen == 5        \* longest buffer given to the cleanup pass
MaxChunks == 2     \* stdout chunks per subprocess
MaxSet == 3        \* option fields the caller sets on one record

----------------------------------------------------------------------------
(* Values *)

Undefined == [t |-> "undefined", text |-> <<>>, code |-> "", msg |-> ""]
Number(n) == [t |-> "number", text |-> <<>>, code |-> "", msg |-> n]
Text(s) == [t |-> "text", text |-> s, code |-> "", msg |-> ""]
ErrorValue(code, msg) == [t |-> "error", text |-> <<>>, code |-> code, msg |-> msg]
NewError(msg) == ErrorValue("", msg)

\* JavaScript truthiness of a value: '' and 0 are falsy, an object is truthy
Truthy(v) == \/ v.t = "error"
             \/ v.t = "text" /\ v.text # <<>>
             \/ v.t = "number" /\ v.msg # "0"

\* the line terminators of JavaScript; U+2028 and U+2029 are written by their
\* escapes, each standing for the one character
LineTerminators == {"\n", "\r", "\\u2028", "\\u2029"}

\* one-character patterns the RegExp constructor rejects
InvalidPatterns == {"(", ")", "[", "\\", "*", "+", "?"}

\* one-character patterns that match the empty string only
EmptyPatterns == {"^", "$", "|"}

\* characters that have a meaning of their own in a pattern, or look as if they had
PatternChars == InvalidPatterns \cup EmptyPatterns \cup {".", "{", "}", "]", "/"}

\* two ordinary characters, one pattern character of each class, a line terminator
Alphabet == {"a", "b", ".", "^", "(", "\n"}

\* the characters that tell the line terminators from the others under "."
DotAlphabet == {"a", "."} \cup LineTerminators

\* the strings of at most n characters of A
RECURSIVE Strings(_, _)
Strings(A, n) == IF n = 0 THEN {<<>>}
                 ELSE LET S == Strings(A, n - 1)
                      IN S \cup {Append(s, c) : s \in {x \in S : Len(x) = n - 1}, c \in A}

\* the buffers stdout can have accumulated: over Alphabet, over DotAlphabet, and
\* over an ordinary character and any one pattern character or line terminator
Buffers(n) ==
    Strings(Alphabet, n) \cup Strings(DotAlphabet, n)
    \cup UNION {Strings({"a", m}, n) : m \in PatternChars \cup LineTerminators}

----------------------------------------------------------------------------
(* The cleanup pass of _spawn *)

\* String.prototype.substring(2)
substring(s, from) == SubSeq(s, from + 1, Len(s))

\* new RegExp(p, 'g') for a pattern of at most one character:
\*   "invalid"  the constructor throws a SyntaxError
\*   "empty"    the pattern matches the empty string only (also RegExp(undefined))
\*   "any"      the pattern matches every character but a line terminator
\*   "literal"  the pattern matches the character itself
RegExp(p) == IF p \in InvalidPatterns THEN "invalid"
             ELSE IF p \in EmptyPatterns \/ p = "undefined" THEN "empty"
             ELSE IF p = "." THEN "any"
             ELSE "literal"

\* the pattern matches the one character ch
Matches(p, ch) == \/ RegExp(p) = "any" /\ ch \notin LineTerminators
                  \/ RegExp(p) = "literal" /\ ch = p

\* output.replace(new RegExp(p, 'g'), ''): every match is dropped
RECURSIVE replace(_, _)
replace(s, p) == IF s = <<>> THEN <<>>
                 ELSE IF Matches(p, Head(s)) THEN replace(Tail(s), p)
                 ELSE <<Head(s)>> \o replace(Tail(s), p)

\* output[i], 0-based
CharAt(s, i) == IF i + 1 <= Len(s) THEN s[i + 1] ELSE "undefined"

\* variant: the marker is the first character of the shortened buffer
CleanMarker_first(s) == CharAt(s, 0)

\* lines 39-40; a SyntaxError of the RegExp constructor is thrown inside the try
CleanMarker(s) == CharAt(s, 1)

Clean(B) ==
    LET s == substring(B, 2)
        p == CleanMarker(s)
    IN IF RegExp(p) = "invalid"
       THEN [threw |-> TRUE, value |-> NewError("SyntaxError: Invalid regular expression")]
       ELSE [threw |-> FALSE, value |-> Text(replace(s, p))]

----------------------------------------------------------------------------
(* Options *)

OptionNames == <<"destDir", "toStdout", "sourceList", "compress", "noAcls",
                 "unixData", "rebuild", "check", "noGlobs">>

EmptyOptions == [image |-> 0, destDir |-> "", toStdout |-> FALSE,
                 sourceList |-> FALSE, compress |-> "", noAcls |-> FALSE,
                 unixData |-> FALSE, rebuild |-> FALSE, check |-> FALSE,
                 noGlobs |-> FALSE]

Dirs == {"d1", "d2"}
Levels == {"fast"}
Images == {2}

\* the values a caller can give an option
OptionValues(k) == IF k = "destDir" THEN Dirs \cup {""}
                   ELSE IF k = "compress" THEN Levels \cup {""}
                   ELSE IF k = "image" THEN Images \cup {0}
                   ELSE BOOLEAN

\* variant: --check is pushed before --rebuild
_argsOptionsBuilder_swapped(o) ==
       (IF o.destDir # "" THEN <<"--dest-dir=" \o o.destDir>> ELSE <<>>)
    \o (IF o.toStdout THEN <<"--to-stdout">> ELSE <<>>)
    \o (IF o.sourceList THEN <<"--source-list">> ELSE <<>>)
    \o (IF o.compress # "" THEN <<"--compress=" \o o.compress>> ELSE <<>>)
    \o (IF o.noAcls THEN <<"--no-acls">> ELSE <<>>)
    \o (IF o.unixData THEN <<"--unix-data">> ELSE <<>>)
    \o (IF o.check THEN <<"--check">> ELSE <<>>)
    \o (IF o.rebuild THEN <<"--rebuild">> ELSE <<>>)
    \o (IF o.noGlobs THEN <<"--no-globs">> ELSE <<>>)

_argsOptionsBuilder(o) ==
       (IF o.destDir # "" THEN <<"--dest-dir=" \o o.destDir>> ELSE <<>>)
    \o (IF o.toStdout THEN <<"--to-stdout">> ELSE <<>>)
    \o (IF o.sourceList THEN <<"--source-list">> ELSE <<>>)
    \o (IF o.compress # "" THEN <<"--compress=" \o o.compress>> ELSE <<>>)
    \o (IF o.noAcls THEN <<"--no-acls">> ELSE <<>>)
    \o (IF o.unixData THEN <<"--unix-data">> ELSE <<>>)
    \o (IF o.rebuild THEN <<"--rebuild">> ELSE <<>>)
    \o (IF o.check THEN <<"--check">> ELSE <<>>)
    \o (IF o.noGlobs THEN <<"--no-globs">> ELSE <<>>)

----------------------------------------------------------------------------
(* _spawn *)

\* a number placed in the argument vector, as the child process receives it
Arg(n) == ToString(n)

outputIsXml(args) == \E i \in 1..Len(args) : args[i] = "--xml"

\* variant: the encoding follows the platform alone
Encoding_platformOnly(plat, args) == IF plat = "win32" THEN "utf8" ELSE "utf16le"

Encoding(plat, args) ==
    IF plat # "win32" /\ outputIsXml(args) THEN "utf16le" ELSE "utf8"

\* _spawn from the point where the yield settles: it threw the value thrown,
\* or it returned a value that the code drops
SpawnReturn(enc, args, out, threw, thrown) ==
    IF threw
    THEN [value |-> thrown, cleaned |-> FALSE]
    ELSE IF enc = "utf8" /\ outputIsXml(args)
    THEN [value |-> Clean(out).value, cleaned |-> TRUE]
    ELSE [value |-> Text(out), cleaned |-> FALSE]

----------------------------------------------------------------------------
(* The operations, up to their call of _spawn *)

Paths == {"a.wim", "b.wim"}

NoCommand == [present |-> FALSE, type |-> "undefined", input |-> "undefined",
              output |-> "undefined"]

Command(type, output) == [present |-> TRUE, type |-> type, input |-> "x",
                          output |-> output]

\* a property the caller left out reads as undefined
Commands == {NoCommand, Command("add", "y"), Command("delete", "y"),
             Command("delete", "undefined"), Command("rename", "y"),
             Command("move", "y")}

\* variant: the image index is left as given
DefaultImage_none(o) == o

\* if (!options.image) options.image = 1
DefaultImage(o) == IF o.image = 0 THEN [o EXCEPT !.image = 1] ELSE o

\* variant: outputDir is not folded into the options
extractOptions_noFold(o, outputDir) == DefaultImage(o)

\* extract, lines 142-147
extractOptions(o, outputDir) ==
    LET o1 == DefaultImage(o)
    IN IF outputDir # "" THEN [o1 EXCEPT !.destDir = outputDir] ELSE o1

captureArgs(outputWim, source, o) ==
    <<"capture", source, outputWim>> \o _argsOptionsBuilder(o)

extractArgs(inputWim, inputPath, o) ==
    <<"extract", inputWim, Arg(o.image), inputPath>> \o _argsOptionsBuilder(o)

infoArgs(inputWim) == <<"info", "--xml", inputWim>>

SupportedTypes == {"add", "delete", "rename"}

\* `${command.type} "${command.input}" "${command.output}"`
RenderCommand(c) == c.type \o " \"" \o c.input \o "\" \"" \o c.output \o "\""

updateArgs(inputWim, c, o) ==
    <<"update", inputWim, Arg(o.image), RenderCommand(c)>> \o _argsOptionsBuilder(o)

verifyArgs(inputWim) == <<"verify", inputWim>>

dirArgs(inputWim) == <<"dir", inputWim>>

----------------------------------------------------------------------------
(* The operations, from the point where _spawn returned out *)

Return(v) == [kind |-> "return", via |-> "", value |-> v]
Throw(v) == [kind |-> "throw", via |-> "", value |-> v]
\* the call settles as xmlParser.parseStringPromise(v) does
ReturnParsed(v) == [kind |-> "return", via |-> "xml2js", value |-> v]
\* the call rejects with the error xmlParser.parseStringPromise rejected with
ThrowParsed(e) == [kind |-> "throw", via |-> "xml2js", value |-> e]
Pending == [kind |-> "pending", via |-> "", value |-> Undefined]

\* !out || out.code
Failed(out) == ~Truthy(out) \/ out.code # ""

MetadataError(inputWim) == NewError("Cannot retrieve WIM metadata from " \o inputWim)
IntegrityError(inputWim) ==
    NewError("Integrity of " \o inputWim \o " file seems compromised")
ListingError(inputWim) ==
    NewError("Cannot retrieve WIM directories and files from " \o inputWim)

captureResume(out) == Return(Undefined)

extractResume(out) == Return(out)

\* info up to its second await: it throws, or it hands out to the parser
infoResume(inputWim, out) ==
    IF Failed(out) THEN Throw(MetadataError(inputWim)) ELSE Pending

updateResume(out) == Return(Undefined)

verifyResume(inputWim, out) ==
    IF out.code # "" THEN Throw(IntegrityError(inputWim)) ELSE Return(Undefined)

dirResume(inputWim, out) ==
    IF Failed(out) THEN Throw(ListingError(inputWim)) ELSE Return(out)

OperationResume(c, out) ==
    CASE c.op = "capture" -> captureResume(out)
      [] c.op = "extract" -> extractResume(out)
      [] c.op = "info"    -> infoResume(c.wim, out)
      [] c.op = "update"  -> updateResume(out)
      [] c.op = "verify"  -> verifyResume(c.wim, out)
      [] c.op = "dir"     -> dirResume(c.wim, out)

----------------------------------------------------------------------------
(* State machine: the calls of a caller who keeps one options record.      *)
(* calls[id].pc is the position of a call:                                 *)
(*   "unissued"  not called yet                                            *)
(*   "spawned"   inside _spawn, at the yield, its subprocess running       *)
(*   "returned"  _spawn has returned, the operation has not resumed yet    *)
(*   "parsing"   info awaits xmlParser.parseStringPromise                  *)
(*   "settled"   the promise of the call is resolved or rejected           *)

CallIds == {1, 2}

NotRun == [kind |-> "none", status |-> "", threw |-> FALSE, value |-> Undefined]
NoOut == [value |-> Undefined, cleaned |-> FALSE]

NoCall == [op |-> "none", wim |-> "", path |-> "", outputDir |-> "",
           command |-> NoCommand, passed |-> FALSE, given |-> EmptyOptions,
           pc |-> "unissued", spawned |-> <<>>, encoding |-> "none",
           chunks |-> <<>>, output |-> <<>>, proc |-> NotRun, spawnOut |-> NoOut,
           result |-> Pending]

\* the records the caller writes
CallerOptions == {[EmptyOptions EXCEPT !.image = i, !.destDir = d] :
                    i \in OptionValues("image"), d \in {"", "d1"}}

\* stdout chunks the subprocess can write
Chunks == {<<"a", "b">>, <<"b", "(">>}

\* how the subprocess ends and how the collaborator tells: next(null, status),
\* or next(v) with an Error carrying the status, the bare status or a string
Exits ==
    {[kind |-> "exit", status |-> "0", threw |-> FALSE, value |-> Number("0")],
     [kind |-> "exit", status |-> "1", threw |-> FALSE, value |-> Number("1")],
     [kind |-> "exit", status |-> "1", threw |-> TRUE,
      value |-> ErrorValue("1", "exit status 1")],
     [kind |-> "exit", status |-> "1", threw |-> TRUE, value |-> Number("1")],
     [kind |-> "exit", status |-> "1", threw |-> TRUE,
      value |-> Text(<<"r", "c", "=", "1">>)]}

\* errors of the spawn mechanism: binary not found, I/O failure
SpawnErrors ==
    {[kind |-> "spawnfail", status |-> "", threw |-> TRUE,
      value |-> ErrorValue("ENOENT", "spawn wimlib-imagex ENOENT")],
     [kind |-> "spawnfail", status |-> "", threw |-> TRUE,
      value |-> ErrorValue("", "read EIO")]}

Platforms == {"win32", "linux"}

Init ==
    /\ platform \in Platforms
    /\ options \in CallerOptions
    /\ original = options
    /\ calls = [id \in CallIds |-> NoCall]
    /\ setOrder = <<>>
    /\ flags = <<>>
    /\ built = FALSE

\* calls are numbered in the order the caller issues them
CanIssue(id) == /\ calls[id].pc = "unissued"
                /\ \A j \in CallIds : j < id => calls[j].pc # "unissued"

\* options = {} by default and when falsy; otherwise the caller's own record
Local(passed) == IF passed THEN options ELSE EmptyOptions

\* the call c, having left the record it was given as o, rejects at once with e
ThrowNow(id, c, o, e) ==
    /\ calls' = [calls EXCEPT ![id] = [c EXCEPT !.pc = "settled", !.result = Throw(e)]]
    /\ options' = IF c.passed THEN o ELSE options
    /\ UNCHANGED <<platform, original, setOrder, flags, built>>

\* the call c, having left the record it was given as o, enters _spawn with
\* argv and stops at the yield
Start(id, c, o, argv) ==
    /\ calls' = [calls EXCEPT ![id] =
                    [c EXCEPT !.pc = "spawned", !.spawned = <<argv>>,
                              !.encoding = Encoding(platform, Tail(argv))]]
    /\ options' = IF c.passed THEN o ELSE options
    /\ UNCHANGED <<platform, original, setOrder, flags, built>>

Capture(id, outputWim, source, passed) ==
    /\ CanIssue(id)
    /\ LET o == Local(passed)
       IN Start(id, [NoCall EXCEPT !.op = "capture", !.wim = outputWim,
                                    !.path = source, !.passed = passed, !.given = o],
                o, captureArgs(outputWim, source, o))

Extract(id, inputWim, inputPath, outputDir, passed) ==
    /\ CanIssue(id)
    /\ LET given == Local(passed)
           o == extractOptions(given, outputDir)
       IN Start(id, [NoCall EXCEPT !.op = "extract", !.wim = inputWim,
                                    !.path = inputPath, !.outputDir = outputDir,
                                    !.passed = passed, !.given = given],
                o, extractArgs(inputWim, inputPath, o))

Info(id, inputWim) ==
    /\ CanIssue(id)
    /\ Start(id, [NoCall EXCEPT !.op = "info", !.wim = inputWim], options,
             infoArgs(inputWim))

Update(id, inputWim, command, passed) ==
    /\ CanIssue(id)
    /\ LET given == Local(passed)
           o == DefaultImage(given)
           c == [NoCall EXCEPT !.op = "update", !.wim = inputWim,
                                !.command = command, !.passed = passed,
                                !.given = given]
       IN IF ~command.present
          THEN ThrowNow(id, c, o, NewError("A command must be specified"))
          ELSE IF command.type \notin SupportedTypes
          THEN ThrowNow(id, c, o, NewError("command " \o command.type
                                           \o " not supported"))
          ELSE Start(id, c, o, updateArgs(inputWim, command, o))

Verify(id, inputWim) ==
    /\ CanIssue(id)
    /\ Start(id, [NoCall EXCEPT !.op = "verify", !.wim = inputWim], options,
             verifyArgs(inputWim))

Dir(id, inputWim) ==
    /\ CanIssue(id)
    /\ Start(id, [NoCall EXCEPT !.op = "dir", !.wim = inputWim], options,
             dirArgs(inputWim))

\* (stdout) => (output += stdout)
Accumulate(out, chunk) == out \o chunk

Stdout(id, chunk) ==
    /\ calls[id].pc = "spawned"
    /\ Len(calls[id].chunks) < MaxChunks
    /\ calls' = [calls EXCEPT ![id].output = Accumulate(@, chunk),
                              ![id].chunks = Append(@, chunk)]
    /\ UNCHANGED <<platform, options, original, setOrder, flags, built>>

\* next is called as p tells: the generator resumes and _spawn returns
SpawnReturns(c, p) ==
    [c EXCEPT !.proc = p,
              !.spawnOut = SpawnReturn(c.encoding, Tail(c.spawned[1]), c.output,
                                       p.threw, p.value),
              !.pc = "returned"]

ProcessExit(id) ==
    /\ calls[id].pc = "spawned"
    /\ \E p \in Exits : calls' = [calls EXCEPT ![id] = SpawnReturns(@, p)]
    /\ UNCHANGED <<platform, options, original, setOrder, flags, built>>

SpawnFailure(id) ==
    /\ calls[id].pc = "spawned"
    /\ \E p \in SpawnErrors : calls' = [calls EXCEPT ![id] = SpawnReturns(@, p)]
    /\ UNCHANGED <<platform, options, original, setOrder, flags, built>>

\* the operation resumes after `await this._spawn(...)`
Resumed(c) ==
    LET r == OperationResume(c, c.spawnOut.value)
    IN [c EXCEPT !.result = r,
                 !.pc = IF r = Pending THEN "parsing" ELSE "settled"]

Resume(id) ==
    /\ calls[id].pc = "returned"
    /\ calls' = [calls EXCEPT ![id] = Resumed(@)]
    /\ UNCHANGED <<platform, options, original, setOrder, flags, built>>

\* what xmlParser.parseStringPromise(out) settles with: the parsed document, or
\* a rejection with the parser's error
ParseOutcomes(out) ==
    {ReturnParsed(out), ThrowParsed(NewError("Non-whitespace before first tag."))}

\* info resumes after `await xmlParser.parseStringPromise(out)`
ParseDone(id) ==
    /\ calls[id].pc = "parsing"
    /\ \E r \in ParseOutcomes(calls[id].spawnOut.value) :
          calls' = [calls EXCEPT ![id].result = r, ![id].pc = "settled"]
    /\ UNCHANGED <<platform, options, original, setOrder, flags, built>>

\* every operation, on subprocesses that write nothing to stdout
Next ==
    \E id \in CallIds :
        \/ \E passed \in BOOLEAN : Capture(id, "a.wim", "src", passed)
        \/ \E d \in {"", "d2"}, passed \in BOOLEAN : Extract(id, "a.wim", "/f", d, passed)
        \/ \E w \in Paths : Info(id, w)
        \/ \E c \in Commands, passed \in BOOLEAN : Update(id, "a.wim", c, passed)
        \/ \E w \in Paths : Verify(id, w)
        \/ \E w \in Paths : Dir(id, w)
        \/ ProcessExit(id)
        \/ SpawnFailure(id)
        \/ Resume(id)
        \/ ParseDone(id)

Spec == Init /\ [][Next]_vars

----------------------------------------------------------------------------
(* The operations that read the output, on subprocesses that write to      *)
(* stdout.                                                                 *)

InitOut ==
    /\ platform \in Platforms
    /\ options = EmptyOptions
    /\ original = options
    /\ calls = [id \in CallIds |-> NoCall]
    /\ setOrder = <<>>
    /\ flags = <<>>
    /\ built = FALSE

NextOut ==
    \E id \in CallIds :
        \/ \E w \in Paths : Info(id, w)
        \/ \E w \in Paths : Verify(id, w)
        \/ \E w \in Paths : Dir(id, w)
        \/ \E chunk \in Chunks : Stdout(id, chunk)
        \/ ProcessExit(id)
        \/ SpawnFailure(id)
        \/ Resume(id)
        \/ ParseDone(id)

SpecOut == InitOut /\ [][NextOut]_vars

----------------------------------------------------------------------------
(* The cleanup pass on every buffer: an info call on a Windows-like        *)
(* platform whose subprocess has written the buffer and now ends.          *)

\* the call info(w) at the yield of _spawn, its subprocess having written out
InfoSpawned(w, out) ==
    [NoCall EXCEPT !.op = "info", !.wim = w, !.pc = "spawned",
                   !.spawned = <<infoArgs(w)>>,
                   !.encoding = Encoding("win32", Tail(infoArgs(w))),
                   !.output = out,
                   !.chunks = IF out = <<>> THEN <<>> ELSE <<out>>]

InitClean ==
    /\ platform = "win32"
    /\ options = EmptyOptions
    /\ original = options
    /\ calls \in {[id \in CallIds |-> IF id = 1 THEN InfoSpawned("a.wim", out)
                                      ELSE NoCall] : out \in Buffers(MaxLen)}
    /\ setOrder = <<>>
    /\ flags = <<>>
    /\ built = FALSE

NextClean == \E id \in CallIds : ProcessExit(id)

SpecClean == InitClean /\ [][NextClean]_vars

----------------------------------------------------------------------------
(* The argument builder on records the caller fills in any order.          *)

InitArgs ==
    /\ platform = "linux"
    /\ options = EmptyOptions
    /\ original = options
    /\ calls = [id \in CallIds |-> NoCall]
    /\ setOrder = <<>>
    /\ flags = <<>>
    /\ built = FALSE

WasSet(k) == \E i \in 1..Len(setOrder) : setOrder[i] = k

\* the caller writes options[k] = v
SetOption(k, v) ==
    /\ Len(setOrder) < MaxSet
    /\ ~WasSet(k)
    /\ options' = [options EXCEPT ![k] = v]
    /\ setOrder' = Append(setOrder, k)
    /\ flags' = <<>>
    /\ built' = FALSE
    /\ UNCHANGED <<platform, original, calls>>

\* Wim._argsOptionsBuilder(options)
BuildArgs ==
    /\ ~built
    /\ flags' = _argsOptionsBuilder(options)
    /\ built' = TRUE
    /\ UNCHANGED <<platform, options, original, calls, setOrder>>

NextArgs ==
    \/ \E i \in 1..Len(OptionNames) :
          \E v \in OptionValues(OptionNames[i]) : SetOption(OptionNames[i], v)
    \/ BuildArgs

SpecArgs == InitArgs /\ [][NextArgs]_vars

----------------------------------------------------------------------------
(* Properties *)

\* the call has run to its end
Settled(c) == c.pc = "settled"
\* _spawn has returned to the call
Returned(c) == c.spawned # <<>> /\ c.pc \in {"returned", "parsing", "settled"}

RECURSIVE Concat(_)
Concat(ss) == IF ss = <<>> THEN <<>> ELSE Head(ss) \o Concat(Tail(ss))

HasXmlFlag(argv) == \E i \in 2..Len(argv) : argv[i] = "--xml"

\* C1: whenever the subprocess of a call ended with a non-zero exit status, the
\* call failed with a thrown error of the operation (not the raw value of the
\* collaborator, nor an error of the XML parser), for capture, extract and update as for info, verify and dir.
C1_NonZeroExitThrows ==
    \A id \in CallIds :
        LET c == calls[id]
        IN (Settled(c) /\ c.proc.kind = "exit" /\ c.proc.status # "0") =>
              /\ c.result.kind = "throw"
              /\ c.result.via = ""
              /\ c.result.value.t = "error"
              /\ c.result.value # c.proc.value

\* C2: whenever the spawn mechanism itself failed, the call rejected with that
\* same error value, neither replaced by another error nor returned normally.
C2_SpawnFailurePropagates ==
    \A id \in CallIds :
        LET c == calls[id]
        IN (Settled(c) /\ c.proc.kind = "spawnfail") =>
              c.result = Throw(c.proc.value)

\* C3 (as claimed): the cleanup pass drops the first two characters of the buffer
\* and strips every occurrence of c, the first character of the shortened buffer
\* (with or without the marker itself), changing nothing else; stated here for
\* buffers of ordinary characters only.
C3_MarkerIsFirstCharacter ==
    \A id \in CallIds :
        LET B == calls[id].output
            out == calls[id].spawnOut
            s == SubSeq(B, 3, Len(B))
        IN (out.cleaned /\ \A i \in 1..Len(B) : B[i] \in {"a", "b"}) =>
              IF s = <<>> THEN out.value = Text(<<>>)
              ELSE \/ out.value = Text(SelectSeq(s, LAMBDA ch : ch # s[1]))
                   \/ out.value =
                         Text(<<s[1]>> \o SelectSeq(Tail(s), LAMBDA ch : ch # s[1]))

\* C3 (amended): the cleanup pass drops the first two characters of the buffer B
\* and uses c, the second character of the shortened buffer (the fourth of B), as
\* a regular expression: with fewer than four characters in B, or c one of ^ $ |,
\* nothing more is removed; c one of ( ) [ \ * + ? makes _spawn return the
\* SyntaxError; c = . strips every character but the line terminators; any other
\* c, a line terminator included, is stripped everywhere.  Kept characters keep
\* their order.
C3_MarkerIsSecondCharacter ==
    \A id \in CallIds :
        LET B == calls[id].output
            out == calls[id].spawnOut
            s == SubSeq(B, 3, Len(B))
        IN out.cleaned =>
              IF Len(B) < 4 THEN out.value = Text(s)
              ELSE LET c == B[4]
                   IN CASE c \in {"(", ")", "[", "\\", "*", "+", "?"} ->
                             out.value.t = "error" /\ out.value.code = ""
                        [] c \in {"^", "$", "|"} -> out.value = Text(s)
                        [] c = "." ->
                             out.value =
                                Text(SelectSeq(s, LAMBDA ch :
                                        ch \in {"\n", "\r", "\\u2028", "\\u2029"}))
                        [] OTHER -> out.value = Text(SelectSeq(s, LAMBDA ch : ch # c))

C3_Witness ==
    /\ calls[1].pc = "returned"
    /\ calls[1].spawnOut.cleaned
    /\ calls[1].output = <<"a", "a", "a", "b", "a">>
    /\ calls[1].spawnOut.value = Text(<<"a", "a">>)

\* C4: the encoding is utf16le exactly when the platform is not win32 and the
\* arguments hold --xml, utf8 otherwise; the cleanup runs only when utf8 was chosen
\* for an --xml request, and always then once the yield has returned; in every
\* other case where the yield returned, _spawn returned the stdout chunks
\* concatenated in arrival order.
C4_EncodingAndCleanup ==
    \A id \in CallIds :
        LET c == calls[id]
            xml == HasXmlFlag(c.spawned[1])
        IN (c.spawned # <<>>) =>
              /\ c.encoding = (IF platform # "win32" /\ xml THEN "utf16le" ELSE "utf8")
              /\ c.spawnOut.cleaned => (c.encoding = "utf8" /\ xml)
              /\ (Returned(c) /\ ~c.proc.threw) =>
                    IF c.encoding = "utf8" /\ xml
                    THEN c.spawnOut.cleaned
                    ELSE c.spawnOut.value = Text(Concat(c.chunks))

C4_Witness ==
    /\ Settled(calls[1])
    /\ ~calls[1].proc.threw
    /\ platform = "linux"
    /\ calls[1].op = "info"
    /\ calls[1].encoding = "utf16le"
    /\ calls[1].chunks = << <<"a", "b">>, <<"b", "(">> >>
    /\ calls[1].spawnOut.value = Text(<<"a", "b", "b", "(">>)
    /\ calls[2].pc = "spawned"

\* C5: an update call without a command fails with the missing-command error and
\* one with a type other than add, delete, rename with the unsupported-command
\* error, both without spawning; any other spawns exactly one subprocess with
\* [update, inputWim, image, instruction, ...flags], image being options.image
\* or 1 and instruction <type> "<input>" "<output>".
C5_UpdateOutcome ==
    \A id \in CallIds :
        LET c == calls[id]
            cmd == c.command
            image == IF c.given.image = 0 THEN 1 ELSE c.given.image
        IN (c.op = "update") =>
              IF ~cmd.present
              THEN /\ c.result = Throw(NewError("A command must be specified"))
                   /\ c.spawned = <<>>
              ELSE IF cmd.type \notin {"add", "delete", "rename"}
              THEN /\ c.result =
                         Throw(NewError("command " \o cmd.type \o " not supported"))
                   /\ c.spawned = <<>>
              ELSE /\ Len(c.spawned) = 1
                   /\ c.spawned[1] =
                         <<"update", c.wim, ToString(image),
                           cmd.type \o " \"" \o cmd.input \o "\" \"" \o cmd.output
                              \o "\"">>
                         \o _argsOptionsBuilder(c.given)

C5_Witness ==
    /\ calls[1].op = "update"
    /\ calls[1].given.image = 0
    /\ calls[1].spawned =
          << <<"update", "a.wim", "1", "rename \"x\" \"y\"", "--dest-dir=d1">> >>

\* C6: once the subprocess ended, info and dir threw their retrieval error naming
\* the path exactly when _spawn returned empty text or the status was non-zero,
\* and otherwise settled as the XML parser did on the output (info) or returned
\* the raw output (dir); verify threw its integrity error naming the path exactly
\* when the status was non-zero.
C6_RetrievalAndIntegrity ==
    \A id \in CallIds :
        LET c == calls[id]
            out == c.spawnOut.value
            bad == out = Text(<<>>) \/ c.proc.status # "0"
        IN (Settled(c) /\ c.proc.kind = "exit") =>
              CASE c.op = "info" ->
                     IF bad
                     THEN c.result = Throw(NewError("Cannot retrieve WIM metadata from "
                                                    \o c.wim))
                     ELSE c.result \in ParseOutcomes(out)
                [] c.op = "dir" ->
                     c.result = IF bad
                                THEN Throw(NewError(
                                        "Cannot retrieve WIM directories and files from "
                                        \o c.wim))
                                ELSE Return(out)
                [] c.op = "verify" ->
                     c.result = IF c.proc.status # "0"
                                THEN Throw(NewError("Integrity of " \o c.wim
                                                    \o " file seems compromised"))
                                ELSE Return(Undefined)
                [] OTHER -> TRUE

\* the flag an option emits
FlagText(o, k) ==
    CASE k = "destDir"    -> "--dest-dir=" \o o.destDir
      [] k = "toStdout"   -> "--to-stdout"
      [] k = "sourceList" -> "--source-list"
      [] k = "compress"   -> "--compress=" \o o.compress
      [] k = "noAcls"     -> "--no-acls"
      [] k = "unixData"   -> "--unix-data"
      [] k = "rebuild"    -> "--rebuild"
      [] k = "check"      -> "--check"
      [] k = "noGlobs"    -> "--no-globs"

IsSet(o, k) == IF k \in {"destDir", "compress"} THEN o[k] # "" ELSE o[k]

\* C7: the list built from a record holds the flag of an option exactly when the
\* option is truthy, each at most once, and in the order dest-dir, to-stdout,
\* source-list, compress, no-acls, unix-data, rebuild, check, no-globs, whatever
\* the order in which the fields were set.
C7_FlagsInFixedOrder ==
    built =>
        /\ \A i \in 1..Len(OptionNames) :
              (\E j \in 1..Len(flags) : flags[j] = FlagText(options, OptionNames[i]))
                 <=> IsSet(options, OptionNames[i])
        /\ \A j1, j2 \in 1..Len(flags) :
              j1 < j2 =>
                 /\ flags[j1] # flags[j2]
                 /\ \E i1, i2 \in 1..Len(OptionNames) :
                       /\ i1 < i2
                       /\ flags[j1] = FlagText(options, OptionNames[i1])
                       /\ flags[j2] = FlagText(options, OptionNames[i2])

C7_Witness ==
    /\ built
    /\ setOrder = <<"check", "rebuild", "destDir">>
    /\ flags = <<"--dest-dir=d1", "--rebuild", "--check">>

\* C8: an extract call given a non-empty outputDir d and options o spawns the
\* vector an extract call without outputDir spawns for o with destDir set to d,
\* and that vector is [extract, inputWim, image, inputPath, ...flags] with image
\* o.image, or 1 when it is unset.
C8_OutputDirIsDestDir ==
    \A id \in CallIds :
        LET c == calls[id]
            o == [c.given EXCEPT !.destDir = c.outputDir]
            image == IF o.image = 0 THEN 1 ELSE o.image
        IN (c.op = "extract" /\ c.outputDir # "") =>
              /\ c.spawned = <<extractArgs(c.wim, c.path, extractOptions(o, ""))>>
              /\ c.spawned[1] = <<"extract", c.wim, ToString(image), c.path>>
                                \o _argsOptionsBuilder(o)

C8_Witness ==
    /\ calls[1].op = "extract"
    /\ calls[1].outputDir = "d2"
    /\ calls[1].given.destDir = "d1"
    /\ calls[1].given.image = 0
    /\ calls[1].spawned = << <<"extract", "a.wim", "1", "/f", "--dest-dir=d2">> >>

\* C9: after any sequence of calls the options record of the caller is as the
\* caller wrote it.
C9_OptionsUnchanged == options = original

\* C10: the instruction and the argument vector of a delete command do not depend
\* on its output field, absent or not.
C10_DeleteIgnoresOutput ==
    \A id \in CallIds :
        LET c == calls[id]
        IN (c.op = "update" /\ c.command.type = "delete" /\ c.spawned # <<>>) =>
              \A out \in {"y", "undefined"} :
                  c.spawned[1] = updateArgs(c.wim, [c.command EXCEPT !.output = out],
                                            DefaultImage(c.given))

====
